---- MODULE Spec2Model ----
(***************************************************************************)
(* TeraRenderEngine (src/tera/mod.rs): the adapter that binds the render   *)
(* engine traits to a Tera instance.  The state is the Tera instance held  *)
(* in the field `tera`: its template table, its registered filters,        *)
(* testers and global functions and its autoescape suffixes.  One action   *)
(* per method of the adapter.                                              *)
(*                                                                         *)
(* History variables (op, res, pre, base, reloaded) record the last call,  *)
(* its result and the table before it, so that the contracts of the        *)
(* methods can be stated as predicates on a state.                         *)
(***************************************************************************)
EXTENDS Naturals, Sequences, FiniteSets

VARIABLES templates, filters, testers, functions, suffixes,
          base, op, res, pre, reloaded

vars == <<templates, filters, testers, functions, suffixes,
          base, op, res, pre, reloaded>>

(* ------------------------------ bounds -------------------------------- *)

\* longest spec tree passed to load_templates / unload_templates
MaxSubSpecs == 2

\* number of distinct data values passed to render
NumData == 1

(* ------------------------------ inputs -------------------------------- *)

\* template ids; "base.html" is also a name the base template glob can match
Ids == {"base.html", "mail.txt"}

BaseNames == {"base.html"}

\* body of a template compiled from the base glob
BaseBody == "BASE"

\* the filter used by the body "B"
UsedFilter == "shout"

FilterNames == {UsedFilter}

TesterNames == {"odd"}

FunctionNames == {"now"}

\* Tera's autoescape suffixes after Tera::new
DefaultSuffixes == {".html", ".htm", ".xml"}

SuffixChoices == {{}, {".txt"}}

SuffixOf(id) == IF id = "base.html" THEN ".html" ELSE ".txt"

Data == 1..NumData

\* TemplateSource: inline content or a file path.  Body "A" is plain text,
\* body "B" applies the filter UsedFilter and "BAD" does not parse.
Sources == {[kind |-> "content", body |-> "A"],
            [kind |-> "file", body |-> "B"],
            [kind |-> "content", body |-> "BAD"]}

SubSpecs == [id : Ids, source : Sources]

RECURSIVE SeqsUpTo(_)
SeqsUpTo(n) ==
    IF n = 0 THEN {<<>>}
    ELSE LET shorter == SeqsUpTo(n - 1)
         IN  shorter \cup {Append(s, x) : s \in {t \in shorter : Len(t) = n - 1},
                                          x \in SubSpecs}

\* TemplateSpec::sub_specs(): an ordered list of sub-specs
TemplateSpecs == SeqsUpTo(MaxSubSpecs)

SpecIds(spec) == {spec[i].id : i \in 1..Len(spec)}

\* RenderEngineBase::PRODUCES_VALID_NEWLINES
PRODUCES_VALID_NEWLINES == FALSE

(* ------------------------------ results ------------------------------- *)

NoId == ""

NoOut == <<>>

OkUnit == [ok |-> TRUE, kind |-> "Ok", id |-> NoId, out |-> NoOut]

OkText(out) == [ok |-> TRUE, kind |-> "Ok", id |-> NoId, out |-> out]

Failure(kind, id) == [ok |-> FALSE, kind |-> kind, id |-> id, out |-> NoOut]

\* collision_error_fn
CollisionErrorFn(id) == Failure("TemplateIdCollision", id)

\* unknown_template_id_error
UnknownTemplateIdError(id) == Failure("UnknowTemplateId", id)

(* --------------------------- the Tera instance ------------------------- *)

\* mutant: the base templates are compiled into a table of their own
TeraNewSeparate(matched) == [n \in {} |-> BaseBody]

\* Tera::new(glob): every matched file compiled into the template table
TeraNew(matched) == [n \in matched |-> BaseBody]

\* HashMap::insert on tera.templates: an entry of the same name is replaced
InsertTemplate(tpls, id, body) ==
    [x \in DOMAIN tpls \cup {id} |-> IF x = id THEN body ELSE tpls[x]]

\* HashMap::remove on tera.templates: no effect when the name is absent
RemoveTemplate(tpls, id) == [x \in DOMAIN tpls \ {id} |-> tpls[x]]

\* Template::new: whether the source parses (content) or can be read and
\* parsed (file)
Compiles(source) == source.body # "BAD"

\* the engine's own error, wrapped into TeraError by the `?` conversions
WrappedTeraError == Failure("Tera", NoId)

\* Tera::add_raw_template(id, content)
AddRawTemplate(tpls, id, body) ==
    IF Compiles([kind |-> "content", body |-> body])
    THEN [ok |-> TRUE, templates |-> InsertTemplate(tpls, id, body)]
    ELSE [ok |-> FALSE, templates |-> tpls]

\* Tera::add_template_file(path, None): the template is named by its path,
\* which is the id of a file source
AddTemplateFile(tpls, path, body) ==
    IF Compiles([kind |-> "file", body |-> body])
    THEN [ok |-> TRUE, templates |-> InsertTemplate(tpls, path, body)]
    ELSE [ok |-> FALSE, templates |-> tpls]

\* whether Tera escapes the output of the template named id
Autoescaped(id, sfx) == SuffixOf(id) \in sfx

\* mutant: a missing template is reported like any other render failure
TeraRenderNoLookup(tpls, flt, sfx, id, data) ==
    IF id \notin DOMAIN tpls \/ (tpls[id] = "B" /\ UsedFilter \notin flt)
    THEN [ok |-> FALSE, cause |-> "Msg", out |-> NoOut]
    ELSE [ok |-> TRUE, cause |-> "None",
          out |-> <<tpls[id], data, Autoescaped(id, sfx)>>]

\* Tera::render(id, data): a missing template is the engine's
\* TemplateNotFound error; a filter that is not registered fails the render
TeraRender(tpls, flt, sfx, id, data) ==
    IF id \notin DOMAIN tpls
    THEN [ok |-> FALSE, cause |-> "TemplateNotFound", out |-> NoOut]
    ELSE IF tpls[id] = "B" /\ UsedFilter \notin flt
    THEN [ok |-> FALSE, cause |-> "Msg", out |-> NoOut]
    ELSE [ok |-> TRUE, cause |-> "None",
          out |-> <<tpls[id], data, Autoescaped(id, sfx)>>]

(* ------------------- the closures given to the load helper ------------- *)

\* mutant: the collision check never finds the id
HasTemplateFnNever(tpls, id) == FALSE

\* mutant: the collision check is negated
HasTemplateFnInverted(tpls, id) == id \notin DOMAIN tpls

\* has_template_fn
HasTemplateFn(tpls, id) == id \in DOMAIN tpls

\* remove_fn
RemoveFn(tpls, id) == RemoveTemplate(tpls, id)

\* add_file_fn
AddFileFn(tpls, sub) == AddTemplateFile(tpls, sub.id, sub.source.body)

\* mutant: the arguments of add_raw_template are swapped
AddContentFnSwapped(tpls, sub) ==
    AddRawTemplate(tpls, sub.source.body, sub.source.body)

\* add_content_fn
AddContentFn(tpls, sub) == AddRawTemplate(tpls, sub.id, sub.source.body)

(* --------------------------- the load helper --------------------------- *)

\* one sub-spec: the collision check, then compile-and-insert by file or by
\* content
LoadOne(tpls, sub) ==
    IF HasTemplateFn(tpls, sub.id)
    THEN [templates |-> tpls, res |-> CollisionErrorFn(sub.id)]
    ELSE LET r == IF sub.source.kind = "file"
                  THEN AddFileFn(tpls, sub)
                  ELSE AddContentFn(tpls, sub)
         IN  [templates |-> r.templates,
              res |-> IF r.ok THEN OkUnit ELSE WrappedTeraError]

\* the sub-specs in the tree's order, stopping at the first failure;
\* `inserted` lists the ids this call has added so far
RECURSIVE LoadLoop(_, _, _, _)
LoadLoop(tpls, spec, i, inserted) ==
    IF i > Len(spec)
    THEN [templates |-> tpls, res |-> OkUnit, inserted |-> inserted]
    ELSE LET r == LoadOne(tpls, spec[i])
         IN  IF r.res.ok
             THEN LoadLoop(r.templates, spec, i + 1, Append(inserted, spec[i].id))
             ELSE [templates |-> r.templates, res |-> r.res, inserted |-> inserted]

RECURSIVE RemoveAll(_, _)
RemoveAll(tpls, ids) ==
    IF ids = <<>> THEN tpls
    ELSE RemoveAll(RemoveFn(tpls, Head(ids)), Tail(ids))

\* The helper is handed remove_fn; what it does with it after a failure is
\* not fixed by the adapter, so both outcomes are kept: `undo` = FALSE
\* leaves the templates inserted before the failure in the table, `undo` =
\* TRUE removes them again with remove_fn.  `r` is the outcome of the loop.
LoadHelper(r, undo) ==
    IF r.res.ok \/ ~undo
    THEN [templates |-> r.templates, res |-> r.res]
    ELSE [templates |-> RemoveAll(r.templates, r.inserted), res |-> r.res]

\* the outcomes of the failure path that differ
UndoChoices(r) ==
    IF ~r.res.ok /\ r.inserted # <<>> THEN BOOLEAN ELSE {FALSE}

(* ------------------------------ unload --------------------------------- *)

\* mutant: the loop returns after the first sub-spec
UnloadLoopFirstOnly(tpls, spec, i) ==
    IF i > Len(spec) THEN tpls ELSE RemoveTemplate(tpls, spec[i].id)

\* mutant: nothing is removed
UnloadLoopKeeps(tpls, spec, i) == tpls

\* unload_templates: tera.templates.remove(id) for every sub-spec
RECURSIVE UnloadLoop(_, _, _)
UnloadLoop(tpls, spec, i) ==
    IF i > Len(spec) THEN tpls
    ELSE UnloadLoop(RemoveTemplate(tpls, spec[i].id), spec, i + 1)

(* ------------------------------ render --------------------------------- *)

\* From<tera::Error> for TeraError, applied by `?` in render
FromTeraError(e, id) ==
    IF e.cause = "TemplateNotFound" THEN UnknownTemplateIdError(id)
    ELSE WrappedTeraError

\* RenderEngine::render on a sub-spec with that id
RenderResult(tpls, flt, sfx, id, data) ==
    LET r == TeraRender(tpls, flt, sfx, id, data)
    IN  IF r.ok THEN OkText(r.out) ELSE FromTeraError(r, id)

(* ------------------------------ the calls ------------------------------ *)

Call(name, spec, id, data, reload) ==
    [name |-> name, spec |-> spec, id |-> id, data |-> data, reload |-> reload]

NoData == 0

EmptyTable == [x \in {} |-> BaseBody]

\* trees of a single sub-spec
LeafSpecs == {s \in TemplateSpecs : Len(s) = 1}

\* unload_templates reads only the id of a sub-spec: one source per id is
\* enough for its inputs
UnloadSpecs ==
    {s \in TemplateSpecs :
        \A i \in 1..Len(s) : s[i].source = [kind |-> "content", body |-> "A"]}

\* a load that directly follows the unload of a tree holding all its ids
IsReload(prev, spec) ==
    /\ prev.name = "unload"
    /\ spec # <<>>
    /\ SpecIds(spec) \subseteq SpecIds(prev.spec)

\* the body the tree gives the id x
BodyIn(spec, x) == spec[CHOOSE i \in 1..Len(spec) : spec[i].id = x].source.body

\* the ids of the tree that the table `old` holds with another body
Changed(old, spec) ==
    {x \in SpecIds(spec) \cap DOMAIN old : old[x] # BodyIn(spec, x)}

\* TeraRenderEngine::new(base_templates_glob), the glob matching BaseNames
Init ==
    /\ base = BaseNames
    /\ templates = TeraNew(base)
    /\ filters = {}
    /\ testers = {}
    /\ functions = {}
    /\ suffixes = DefaultSuffixes
    /\ op = Call("new", <<>>, NoId, NoData, FALSE)
    /\ res = OkUnit
    /\ pre = EmptyTable
    /\ reloaded = EmptyTable

RegisterFilter ==
    \E name \in FilterNames :
        /\ filters' = filters \cup {name}
        /\ op' = Call("register_filter", <<>>, name, NoData, FALSE)
        /\ res' = OkUnit
        /\ pre' = templates
        /\ UNCHANGED <<templates, testers, functions, suffixes, base, reloaded>>

RegisterTester ==
    \E name \in TesterNames :
        /\ testers' = testers \cup {name}
        /\ op' = Call("register_tester", <<>>, name, NoData, FALSE)
        /\ res' = OkUnit
        /\ pre' = templates
        /\ UNCHANGED <<templates, filters, functions, suffixes, base, reloaded>>

RegisterGlobalFunction ==
    \E name \in FunctionNames :
        /\ functions' = functions \cup {name}
        /\ op' = Call("register_global_function", <<>>, name, NoData, FALSE)
        /\ res' = OkUnit
        /\ pre' = templates
        /\ UNCHANGED <<templates, filters, testers, suffixes, base, reloaded>>

SetAutoescapeFileSuffixes ==
    \E sfx \in SuffixChoices :
        /\ suffixes' = sfx
        /\ op' = Call("set_autoescape_file_suffixes", <<>>, NoId, NoData, FALSE)
        /\ res' = OkUnit
        /\ pre' = templates
        /\ UNCHANGED <<templates, filters, testers, functions, base, reloaded>>

\* load_templates(spec), spec drawn from `specs`
LoadTemplatesOf(specs) ==
    \E spec \in specs :
        LET loop == LoadLoop(templates, spec, 1, <<>>)
        IN  \E undo \in UndoChoices(loop) :
                LET r == LoadHelper(loop, undo)
                    reload == IsReload(op, spec)
                IN  /\ templates' = r.templates
                    /\ res' = r.res
                    /\ op' = Call("load", spec, NoId, NoData, reload)
                    /\ pre' = templates
                    /\ reloaded' =
                         IF reload /\ r.res.ok
                         THEN [x \in DOMAIN reloaded \cup Changed(pre, spec) |->
                                  IF x \in SpecIds(spec) THEN BodyIn(spec, x)
                                  ELSE reloaded[x]]
                         ELSE reloaded
                    /\ UNCHANGED <<filters, testers, functions, suffixes, base>>

\* unload_templates(spec), spec drawn from `specs`
UnloadTemplatesOf(specs) ==
    \E spec \in specs :
        /\ templates' = UnloadLoop(templates, spec, 1)
        /\ res' = OkUnit
        /\ op' = Call("unload", spec, NoId, NoData, FALSE)
        /\ pre' = templates
        /\ reloaded' = [x \in DOMAIN reloaded \ SpecIds(spec) |-> reloaded[x]]
        /\ UNCHANGED <<filters, testers, functions, suffixes, base>>

\* mutant: a failed render drops the template it was asked for
RenderDropping ==
    \E id \in Ids, data \in Data :
        LET r == RenderResult(templates, filters, suffixes, id, data)
        IN  /\ res' = r
            /\ templates' = IF r.ok THEN templates ELSE RemoveTemplate(templates, id)
            /\ op' = Call("render", <<>>, id, data, FALSE)
            /\ pre' = templates
            /\ UNCHANGED <<filters, testers, functions, suffixes, base, reloaded>>

\* render(spec, data, cids) for the sub-spec with the id `id`
Render ==
    \E id \in Ids, data \in Data :
        /\ res' = RenderResult(templates, filters, suffixes, id, data)
        /\ op' = Call("render", <<>>, id, data, FALSE)
        /\ pre' = templates
        /\ UNCHANGED <<templates, filters, testers, functions, suffixes,
                       base, reloaded>>

LoadTemplates == LoadTemplatesOf(TemplateSpecs)

UnloadTemplates == UnloadTemplatesOf(UnloadSpecs)

LoadLeaf == LoadTemplatesOf(LeafSpecs)

UnloadLeaf == UnloadTemplatesOf(UnloadSpecs \cap LeafSpecs)

\* loading, unloading and rendering whole trees
Next ==
    \/ LoadTemplates
    \/ UnloadTemplates
    \/ Render

Spec == Init /\ [][Next]_vars

\* every method of the adapter, on trees of one sub-spec
NextEngine ==
    \/ RegisterFilter
    \/ RegisterTester
    \/ RegisterGlobalFunction
    \/ SetAutoescapeFileSuffixes
    \/ LoadLeaf
    \/ UnloadLeaf
    \/ Render

SpecEngine == Init /\ [][NextEngine]_vars

(* ------------------------- properties of the calls --------------------- *)

Colliding(tpls, spec, i) ==
    \/ spec[i].id \in DOMAIN tpls
    \/ \E j \in 1..(i - 1) : spec[j].id = spec[i].id

Fails(tpls, spec, i) == Colliding(tpls, spec, i) \/ ~Compiles(spec[i].source)

\* index of the first sub-spec that cannot be loaded into tpls, 0 if none
FirstFailure(tpls, spec) ==
    IF \E i \in 1..Len(spec) : Fails(tpls, spec, i)
    THEN CHOOSE i \in 1..Len(spec) :
            Fails(tpls, spec, i) /\ \A j \in 1..(i - 1) : ~Fails(tpls, spec, j)
    ELSE 0

PairwiseDistinct(spec) ==
    \A i, j \in 1..Len(spec) : i # j => spec[i].id # spec[j].id

AllCompile(spec) == \A i \in 1..Len(spec) : Compiles(spec[i].source)

Renderable(id) ==
    \A d \in Data :
        RenderResult(templates, filters, suffixes, id, d).kind # "UnknowTemplateId"

C3_DistinctIdsAlwaysLoad ==
    (op.name = "load" /\ PairwiseDistinct(op.spec) /\ AllCompile(op.spec)) =>
        /\ res.ok
        /\ \A i \in 1..Len(op.spec) :
               op.spec[i].id \in DOMAIN templates /\ Renderable(op.spec[i].id)

\* C3 amended: a tree with pairwise-distinct ids, none of them in the table
\* before the call, whose sources compile, loads; every id is then in the
\* table with the tree's body and render does not report it unknown.
C3_FreshDistinctIdsLoad ==
    (/\ op.name = "load"
     /\ PairwiseDistinct(op.spec)
     /\ AllCompile(op.spec)
     /\ SpecIds(op.spec) \cap DOMAIN pre = {}) =>
        /\ res.ok
        /\ \A i \in 1..Len(op.spec) :
               /\ op.spec[i].id \in DOMAIN templates
               /\ templates[op.spec[i].id] = op.spec[i].source.body
               /\ Renderable(op.spec[i].id)

\* a load of two fresh ids, one from a file and one from content
C3_Witness ==
    /\ op.name = "load"
    /\ Len(op.spec) = 2
    /\ PairwiseDistinct(op.spec)
    /\ AllCompile(op.spec)
    /\ SpecIds(op.spec) \cap DOMAIN pre = {}
    /\ op.spec[1].source.kind # op.spec[2].source.kind
    /\ res.ok

\* C4: unload never fails; afterwards no id of the tree is in the table and
\* every entry under another id is as before; a tree none of whose ids is in
\* the table leaves the table as it was.
C4_UnloadFrame ==
    op.name = "unload" =>
        /\ res = OkUnit
        /\ SpecIds(op.spec) \cap DOMAIN templates = {}
        /\ DOMAIN templates = DOMAIN pre \ SpecIds(op.spec)
        /\ \A x \in DOMAIN templates : templates[x] = pre[x]
        /\ SpecIds(op.spec) \cap DOMAIN pre = {} => templates = pre

\* an unload of a tree with an id that was not loaded and one that was
C4_Witness ==
    /\ op.name = "unload"
    /\ Len(op.spec) = 2
    /\ op.spec[1].id \notin DOMAIN pre
    /\ op.spec[2].id \in DOMAIN pre
    /\ res = OkUnit

IsBase(tpls, b) == b \in DOMAIN tpls /\ tpls[b] = BaseBody

\* C6 as stated: the base templates are in a namespace of their own: each is
\* present in every state, and a load never collides with one.
C6_SeparateNamespace ==
    /\ \A b \in base : IsBase(templates, b)
    /\ ~(op.name = "load" /\ \E b \in base :
            IsBase(pre, b) /\ res = CollisionErrorFn(b))

\* C6 amended: the base templates are in the table the specs are loaded
\* into.  After new every base template is in it; a load leaves a base
\* template as it is and fails when its tree names one; an unload removes
\* the base templates its tree names and leaves the others as they are.
C6_SharedTable ==
    /\ op.name = "new" => \A b \in base : IsBase(templates, b)
    /\ op.name = "load" =>
           \A b \in base : IsBase(pre, b) =>
               /\ IsBase(templates, b)
               /\ b \in SpecIds(op.spec) => ~res.ok
    /\ op.name = "unload" =>
           \A b \in base :
               /\ b \in SpecIds(op.spec) => b \notin DOMAIN templates
               /\ (b \notin SpecIds(op.spec) /\ IsBase(pre, b)) => IsBase(templates, b)

\* a load that collided with a base template
C6_Witness ==
    /\ op.name = "load"
    /\ \E b \in base : IsBase(pre, b) /\ IsBase(templates, b)
                        /\ res = CollisionErrorFn(b)

\* C7: a load overwrites or removes no entry that was in the table before
\* the call under an id of its tree; in particular the entry of the id a
\* TemplateIdCollision carries is the one stored before the call.
C7_CollisionKeepsEntry ==
    op.name = "load" =>
        \A x \in DOMAIN pre :
            (res = CollisionErrorFn(x) \/ x \in SpecIds(op.spec)) =>
                (x \in DOMAIN templates /\ templates[x] = pre[x])

\* a collision on an id whose sub-spec carries another body than the table
C7_Witness ==
    /\ op.name = "load"
    /\ \E i \in 1..Len(op.spec) :
           /\ res = CollisionErrorFn(op.spec[i].id)
           /\ op.spec[i].id \in DOMAIN pre
           /\ Compiles(op.spec[i].source)
           /\ op.spec[i].source.body # pre[op.spec[i].id]
           /\ templates[op.spec[i].id] = pre[op.spec[i].id]

\* C9: a render step, failed or not, leaves the template table and the
\* registered filters, testers, functions and suffixes unchanged, so every
\* render gives after it the result it gave before it.
C9_RenderReadsOnly ==
    [][op'.name = "render" =>
          /\ UNCHANGED <<templates, filters, testers, functions, suffixes>>
          /\ \A id \in Ids, d \in Data :
                 RenderResult(templates', filters', suffixes', id, d)
                     = RenderResult(templates, filters, suffixes, id, d)]_vars

\* a render that failed on a template of the table, after a tester and a
\* function were registered and the suffixes were set
C9_Witness ==
    /\ op.name = "render"
    /\ op.id \in DOMAIN templates
    /\ ~res.ok
    /\ testers # {}
    /\ functions # {}
    /\ suffixes # DefaultSuffixes

====
